---- MODULE Spec2Model ----
(***************************************************************************)
(* The critical-path scheduler of app/services/schedule.py (compute_cpm    *)
(* and _topological_order), run against the Project, Task and              *)
(* TaskDependency tables of app/models.py through the session of           *)
(* app/db.py.                                                              *)
(*                                                                         *)
(* A date is its proleptic ordinal (date.toordinal()): date + timedelta    *)
(* is integer addition and (a - b).days is integer subtraction.  The dates *)
(* stay far below date.max, so no addition raises OverflowError.           *)
(***************************************************************************)
EXTENDS Integers, Sequences, FiniteSets, TLC

VARIABLES Project,          \* table project: id -> row, or Missing
          Task,             \* table task: id -> row (committed values)
          TaskDependency,   \* table taskdependency, in row order
          requests,         \* per project: the compute_cpm calls still to make
          call,             \* per project: the frame of its compute_cpm call
          returned          \* per project: what its calls gave their caller

vars == <<Project, Task, TaskDependency, requests, call, returned>>

----------------------------------------------------------------------------
(* Bounds of the model. *)

MaxTasks == 3      \* task rows in the database
MaxDeps == 3       \* dependency rows in the database
MaxDur == 2        \* largest duration_days of a task row

Projects == {1, 2}
TaskIds == 1..MaxTasks
Durations == 0..MaxDur          \* the column takes what the caller stores
StartDates == {10}

\* None, for the Optional[date] columns; a date's ordinal is at least 1.
NULL == 0

\* session.get(Project, project_id) of a project that has no row.
Missing == [start_date |-> NULL, exists |-> FALSE]

----------------------------------------------------------------------------
(* Helpers over sequences and sets. *)

Range(s) == {s[i] : i \in 1..Len(s)}

SeqsUpTo(S, n) == UNION {[1..k -> S] : k \in 0..n}

Max2(a, b) == IF a >= b THEN a ELSE b

\* max(...) and min(...) of a non-empty collection of dates
MaxOf(S) == CHOOSE x \in S : \A y \in S : y <= x
MinOf(S) == CHOOSE x \in S : \A y \in S : x <= y

Reverse(s) == [i \in 1..Len(s) |-> s[Len(s) + 1 - i]]

\* the elements of s that satisfy Test, in the order of s
RECURSIVE SelectIds(_, _)
SelectIds(s, keep) ==
    IF s = <<>> THEN <<>>
    ELSE IF Head(s) \in keep THEN <<Head(s)>> \o SelectIds(Tail(s), keep)
    ELSE SelectIds(Tail(s), keep)

\* the list s without the repeats of an element that came earlier in it
RECURSIVE SingleCopies(_, _)
SingleCopies(s, seen) ==
    IF s = <<>> THEN <<>>
    ELSE IF Head(s) \in seen THEN SingleCopies(Tail(s), seen)
    ELSE <<Head(s)>> \o SingleCopies(Tail(s), seen \cup {Head(s)})

\* the ids 1..n in ascending order (the row order of a table scan)
Ascending(n) == [i \in 1..n |-> i]

----------------------------------------------------------------------------
(* _add_days and the duration floor. *)

\* mutant: the finish counted as the last day worked (an inclusive end)
AddDaysInclusive(start, days) == start + days - 1

_add_days(start, days) == start + days

\* schedule.py 73: duration = max(1, task.duration_days) of the forward pass
ForwardDuration(duration_days) == Max2(1, duration_days)

\* mutant: the backward pass without the floor
BackwardDurationRaw(duration_days) == duration_days

\* schedule.py 89: duration = max(1, task.duration_days) of the backward pass
BackwardDuration(duration_days) == Max2(1, duration_days)

----------------------------------------------------------------------------
(* The frame of one compute_cpm call: its locals and its position. *)

NoOrder == <<>>
NoDates == <<>>          \* an empty dict (a function with empty domain)

IdleFrame ==
    [pc |-> "idle", persist_planned_dates |-> TRUE, error |-> "none",
     start_date |-> NULL, tasks |-> <<>>, deps |-> <<>>,
     task_by_id |-> <<>>, task_ids |-> <<>>,
     successors |-> <<>>, predecessors |-> <<>>,
     indegree |-> <<>>, queue |-> <<>>, order |-> NoOrder,
     es |-> NoDates, ef |-> NoDates, project_finish |-> NULL,
     reverse_order |-> NoOrder, ls |-> NoDates, lf |-> NoDates, pos |-> 0,
     schedule_by_task |-> <<>>, critical_path_ids |-> <<>>,
     project_schedule |-> <<>>]

\* raise inside the with block: the frame is abandoned with the error
Raise(f, kind) == [f EXCEPT !.pc = "raise", !.error = kind]

\* mutant: only the missing project is rejected
GetProjectAnyStart(f, project, persist) ==
    LET g == [IdleFrame EXCEPT !.persist_planned_dates = persist]
    IN  IF ~project.exists
        THEN Raise(g, "ValueError")
        ELSE [g EXCEPT !.pc = "load", !.start_date = project.start_date]

\* schedule.py 43-46: open the session, get the project, check it
GetProject(f, project, persist) ==
    LET g == [IdleFrame EXCEPT !.persist_planned_dates = persist]
    IN  IF ~project.exists \/ project.start_date = NULL
        THEN Raise(g, "ValueError")
        ELSE [g EXCEPT !.pc = "load", !.start_date = project.start_date]

\* mutant: the tasks selected without the project filter
SelectAllTasks(task, project_id) == Ascending(MaxTasks)

\* session.exec(select(Task).where(Task.project_id == project_id)): a table
\* scan, rows in id order
SelectTasks(task, project_id) ==
    SelectIds(Ascending(MaxTasks), {t \in DOMAIN task : task[t].project_id = project_id})

\* session.exec(select(TaskDependency).where(... project_id == project_id))
RECURSIVE SelectDeps(_, _)
SelectDeps(deps, project_id) ==
    IF deps = <<>> THEN <<>>
    ELSE IF Head(deps).project_id = project_id
         THEN <<Head(deps)>> \o SelectDeps(Tail(deps), project_id)
         ELSE SelectDeps(Tail(deps), project_id)

\* schedule.py 56-60: the defaultdict(list) adjacency; a key never appended to
\* reads as the empty list
RECURSIVE ListOf(_, _, _)
ListOf(deps, key, from_pred) ==
    IF deps = <<>> THEN <<>>
    ELSE LET d == Head(deps)
             k == IF from_pred THEN d.predecessor_id ELSE d.successor_id
             v == IF from_pred THEN d.successor_id ELSE d.predecessor_id
         IN  (IF k = key THEN <<v>> ELSE <<>>) \o ListOf(Tail(deps), key, from_pred)

Successors(deps) == [u \in TaskIds |-> ListOf(deps, u, TRUE)]

\* mutant: each dependency replaces the predecessor list of its successor
PredecessorsOverwritten(deps) ==
    [v \in TaskIds |->
        LET l == ListOf(deps, v, FALSE)
        IN  IF l = <<>> THEN <<>> ELSE <<l[Len(l)]>>]

Predecessors(deps) == [v \in TaskIds |-> ListOf(deps, v, FALSE)]

\* schedule.py 48-60: read the tasks and the dependencies, build the graph
Load(f, task, deps, project_id) ==
    LET tasks == SelectTasks(task, project_id)
        ds == SelectDeps(deps, project_id)
    IN  [f EXCEPT !.pc = "indegree",
                  !.tasks = tasks,
                  !.deps = ds,
                  !.task_by_id = [t \in Range(tasks) |-> task[t]],
                  !.task_ids = tasks,
                  !.successors = Successors(ds),
                  !.predecessors = Predecessors(ds)]

----------------------------------------------------------------------------
(* _topological_order (Kahn's algorithm). *)

\* how many times v occurs in the list vs
RECURSIVE Count(_, _)
Count(vs, v) ==
    IF vs = <<>> THEN 0
    ELSE (IF Head(vs) = v THEN 1 ELSE 0) + Count(Tail(vs), v)

RECURSIVE SumOver(_, _, _)
SumOver(keys, edges, v) ==
    IF keys = {} THEN 0
    ELSE LET u == CHOOSE k \in keys : TRUE
         IN  Count(edges[u], v) + SumOver(keys \ {u}, edges, v)

\* schedule.py 18-21: indegree[v] += 1 for every v of every edges[u]; the
\* dict has the task ids as its keys, so another v is a KeyError
EdgeTargets(edges) == UNION {Range(edges[u]) : u \in DOMAIN edges}

\* mutant: the in-degree counts the predecessors, not the edges
IndegreeDistinct(task_ids, edges) ==
    [t \in Range(task_ids) |->
        Cardinality({u \in DOMAIN edges : t \in Range(edges[u])})]

Indegree(task_ids, edges) ==
    [t \in Range(task_ids) |-> SumOver(DOMAIN edges, edges, t)]

CountIndegree(f) ==
    IF ~(EdgeTargets(f.successors) \subseteq Range(f.task_ids))
    THEN Raise(f, "KeyError")
    ELSE [f EXCEPT !.pc = "seed",
                   !.indegree = Indegree(f.task_ids, f.successors)]

\* schedule.py 23-24: deque([t for t in task_ids if indegree[t] == 0])
RECURSIVE ReadyTasks(_, _)
ReadyTasks(task_ids, indegree) ==
    IF task_ids = <<>> THEN <<>>
    ELSE (IF indegree[Head(task_ids)] = 0 THEN <<Head(task_ids)>> ELSE <<>>)
         \o ReadyTasks(Tail(task_ids), indegree)

SeedQueue(f) ==
    [f EXCEPT !.pc = "kahn",
              !.queue = ReadyTasks(f.task_ids, f.indegree),
              !.order = <<>>]

\* schedule.py 28-31: for v in edges[u]: indegree[v] -= 1; enqueue at zero
RECURSIVE Relax(_, _, _)
Relax(vs, indegree, queue) ==
    IF vs = <<>> THEN [indegree |-> indegree, queue |-> queue]
    ELSE LET v == Head(vs)
             dec == [indegree EXCEPT ![v] = @ - 1]
         IN  Relax(Tail(vs), dec, IF dec[v] = 0 THEN Append(queue, v) ELSE queue)

\* mutant: the task taken from the queue is put in front of the order
KahnStepPrepend(f) ==
    LET u == Head(f.queue)
        r == Relax(f.successors[u], f.indegree, Tail(f.queue))
    IN  [f EXCEPT !.queue = r.queue,
                  !.order = <<u>> \o @,
                  !.indegree = r.indegree]

\* mutant: the task enqueued last is taken first (queue.pop())
KahnStepLifo(f) ==
    LET u == f.queue[Len(f.queue)]
        r == Relax(f.successors[u], f.indegree, SubSeq(f.queue, 1, Len(f.queue) - 1))
    IN  [f EXCEPT !.queue = r.queue,
                  !.order = Append(@, u),
                  !.indegree = r.indegree]

\* mutant: each successor is relaxed once, however often it is listed
KahnStepDistinct(f) ==
    LET u == Head(f.queue)
        r == Relax(SingleCopies(f.successors[u], {}), f.indegree, Tail(f.queue))
    IN  [f EXCEPT !.queue = r.queue,
                  !.order = Append(@, u),
                  !.indegree = r.indegree]

\* schedule.py 25-31: one iteration of while queue
KahnStep(f) ==
    LET u == Head(f.queue)
        r == Relax(f.successors[u], f.indegree, Tail(f.queue))
    IN  [f EXCEPT !.queue = r.queue,
                  !.order = Append(@, u),
                  !.indegree = r.indegree]

\* mutant: the order returned without the length test
KahnEndUnchecked(f) ==
    [f EXCEPT !.pc = "forward", !.pos = 1, !.es = NoDates, !.ef = NoDates]

\* schedule.py 33-35 and 62-65: the length test, then the return into
\* compute_cpm
KahnEnd(f) ==
    IF Len(f.order) # Len(f.task_ids)
    THEN Raise(f, "CycleError")
    ELSE [f EXCEPT !.pc = "forward", !.pos = 1, !.es = NoDates, !.ef = NoDates]

----------------------------------------------------------------------------
(* Forward pass, project finish, backward pass. *)

\* a dict after d[k] = v
Put(d, k, v) == [x \in (DOMAIN d) \cup {k} |-> IF x = k THEN v ELSE d[x]]

\* mutant: the earliest instead of the latest predecessor finish
EarlyStartMin(start_date, preds, ef) ==
    IF preds = <<>> THEN start_date
    ELSE MinOf({ef[p] : p \in Range(preds)})

\* mutant: only the first predecessor in the list is waited for
EarlyStartFirstPred(start_date, preds, ef) ==
    IF preds = <<>> THEN start_date
    ELSE ef[Head(preds)]

\* mutant: a task starts the day after its last predecessor finished
EarlyStartNextDay(start_date, preds, ef) ==
    IF preds = <<>> THEN start_date
    ELSE MaxOf({ef[p] : p \in Range(preds)}) + 1

\* schedule.py 68-72
EarlyStart(start_date, preds, ef) ==
    IF preds = <<>> THEN start_date
    ELSE MaxOf({ef[p] : p \in Range(preds)})

\* mutant: a task that has a planned finish date starts from it
ForwardStepFromPlanned(f) ==
    LET tid == f.order[f.pos]
        preds == f.predecessors[tid]
        t == f.task_by_id[tid]
        start == IF t.planned_finish_date # NULL THEN t.planned_finish_date
                 ELSE EarlyStart(f.start_date, preds, f.ef)
        duration == ForwardDuration(t.duration_days)
    IN  [f EXCEPT !.es = Put(@, tid, start),
                  !.ef = Put(@, tid, _add_days(start, duration)),
                  !.pos = @ + 1]

\* schedule.py 67-74: one iteration of for tid in order; ef[p] of a
\* predecessor not yet visited is a KeyError
ForwardStep(f) ==
    LET tid == f.order[f.pos]
        preds == f.predecessors[tid]
    IN  IF ~(Range(preds) \subseteq DOMAIN f.ef)
        THEN Raise(f, "KeyError")
        ELSE LET start == EarlyStart(f.start_date, preds, f.ef)
                 duration == ForwardDuration(f.task_by_id[tid].duration_days)
             IN  [f EXCEPT !.es = Put(@, tid, start),
                           !.ef = Put(@, tid, _add_days(start, duration)),
                           !.pos = @ + 1]

\* mutant: the earliest instead of the latest early finish
ProjectFinishMin(ef, start_date) ==
    IF DOMAIN ef # {} THEN MinOf({ef[t] : t \in DOMAIN ef}) ELSE start_date

\* schedule.py 76
ProjectFinish(ef, start_date) ==
    IF DOMAIN ef # {} THEN MaxOf({ef[t] : t \in DOMAIN ef}) ELSE start_date

\* mutant: the backward pass walks the order from its first task
FinishStepForwardOrder(f) ==
    [f EXCEPT !.pc = "backward",
              !.project_finish = ProjectFinish(f.ef, f.start_date),
              !.ls = NoDates, !.lf = NoDates,
              !.reverse_order = f.order,
              !.pos = 1]

\* schedule.py 76-82
FinishStep(f) ==
    [f EXCEPT !.pc = "backward",
              !.project_finish = ProjectFinish(f.ef, f.start_date),
              !.ls = NoDates, !.lf = NoDates,
              !.reverse_order = Reverse(f.order),
              !.pos = 1]

\* mutant: every task may finish as late as the project
LateFinishProjectEnd(project_finish, succs, ls) == project_finish

\* mutant: the latest instead of the earliest successor start
LateFinishMax(project_finish, succs, ls) ==
    IF succs = <<>> THEN project_finish
    ELSE MaxOf({ls[s] : s \in Range(succs)})

\* mutant: only the first successor in the list is looked at
LateFinishFirstSucc(project_finish, succs, ls) ==
    IF succs = <<>> THEN project_finish
    ELSE ls[Head(succs)]

\* schedule.py 84-88
LateFinish(project_finish, succs, ls) ==
    IF succs = <<>> THEN project_finish
    ELSE MinOf({ls[s] : s \in Range(succs)})

\* mutant: a task without successors must finish at its own early finish
BackwardStepOwnFinish(f) ==
    LET tid == f.reverse_order[f.pos]
        succs == f.successors[tid]
        finish == IF succs = <<>> THEN f.ef[tid]
                  ELSE MinOf({f.ls[s] : s \in Range(succs)})
        duration == BackwardDuration(f.task_by_id[tid].duration_days)
    IN  [f EXCEPT !.lf = Put(@, tid, finish),
                  !.ls = Put(@, tid, _add_days(finish, 0 - duration)),
                  !.pos = @ + 1]

\* schedule.py 83-90: one iteration of for tid in reverse_order
BackwardStep(f) ==
    LET tid == f.reverse_order[f.pos]
        succs == f.successors[tid]
    IN  IF ~(Range(succs) \subseteq DOMAIN f.ls)
        THEN Raise(f, "KeyError")
        ELSE LET finish == LateFinish(f.project_finish, succs, f.ls)
                 duration == BackwardDuration(f.task_by_id[tid].duration_days)
             IN  [f EXCEPT !.lf = Put(@, tid, finish),
                           !.ls = Put(@, tid, _add_days(finish, 0 - duration)),
                           !.pos = @ + 1]

----------------------------------------------------------------------------
(* Float, critical tasks, the two results. *)

\* mutant: the float counted with both end days included
TotalFloatInclusive(late_start, early_start) == late_start - early_start + 1

\* schedule.py 95: (ls[tid] - es[tid]).days
TotalFloat(late_start, early_start) == late_start - early_start

\* mutant: a task with one day of float flagged critical
IsCriticalWithinOneDay(total_float) == total_float <= 1

\* schedule.py 96
IsCritical(total_float) == total_float = 0

\* schedule.py 99-107
TaskScheduleOf(f, tid) ==
    LET total_float == TotalFloat(f.ls[tid], f.es[tid])
    IN  [task_id |-> tid,
         early_start |-> f.es[tid],
         early_finish |-> f.ef[tid],
         late_start |-> f.ls[tid],
         late_finish |-> f.lf[tid],
         total_float_days |-> total_float,
         is_critical |-> IsCritical(total_float)]

\* schedule.py 93-98: the ids appended in the order of the loop
RECURSIVE CriticalPathIds(_, _)
CriticalPathIds(order, schedule) ==
    IF order = <<>> THEN <<>>
    ELSE (IF schedule[Head(order)].is_critical THEN <<Head(order)>> ELSE <<>>)
         \o CriticalPathIds(Tail(order), schedule)

\* mutant: finish_date filled with the start date
ProjectScheduleStartAsFinish(project_id, start_date, project_finish, critical_path_ids) ==
    [project_id |-> project_id,
     start_date |-> start_date,
     finish_date |-> start_date,
     critical_path_task_ids |-> critical_path_ids]

\* schedule.py 109-114
ProjectScheduleOf(project_id, start_date, project_finish, critical_path_ids) ==
    [project_id |-> project_id,
     start_date |-> start_date,
     finish_date |-> project_finish,
     critical_path_task_ids |-> critical_path_ids]

\* schedule.py 92-114
SelectStep(f, project_id) ==
    LET schedule == [tid \in Range(f.order) |-> TaskScheduleOf(f, tid)]
        critical == CriticalPathIds(f.order, schedule)
    IN  [f EXCEPT !.pc = "persist",
                  !.schedule_by_task = schedule,
                  !.critical_path_ids = critical,
                  !.project_schedule =
                      ProjectScheduleOf(project_id, f.start_date, f.project_finish, critical)]

\* mutant: the write-back also stores the floored duration
PlannedWithDuration(t, sched) ==
    [t EXCEPT !.planned_start_date = sched.early_start,
              !.planned_finish_date = sched.early_finish,
              !.duration_days = sched.early_finish - sched.early_start]

\* schedule.py 118-120: the planned dates of one task object of the session
Planned(t, sched) ==
    [t EXCEPT !.planned_start_date = sched.early_start,
              !.planned_finish_date = sched.early_finish]

\* mutant: the planned dates are written whatever the flag says
PersistStepAlways(f) ==
    [f EXCEPT !.pc = "return",
              !.task_by_id =
                  [tid \in DOMAIN f.task_by_id |->
                      IF tid \in DOMAIN f.schedule_by_task
                      THEN Planned(f.task_by_id[tid], f.schedule_by_task[tid])
                      ELSE f.task_by_id[tid]]]

\* schedule.py 116-121
PersistStep(f) ==
    [f EXCEPT !.pc = "return",
              !.task_by_id =
                  IF f.persist_planned_dates
                  THEN [tid \in DOMAIN f.task_by_id |->
                           IF tid \in DOMAIN f.schedule_by_task
                           THEN Planned(f.task_by_id[tid], f.schedule_by_task[tid])
                           ELSE f.task_by_id[tid]]
                  ELSE f.task_by_id]

\* mutant: the session is closed without a commit
FlushNothing(task, task_by_id) == task

\* mutant: the commit clears the planned dates of the rows outside the session
FlushClearsOthers(task, task_by_id) ==
    [t \in DOMAIN task |->
        IF t \in DOMAIN task_by_id
        THEN [task[t] EXCEPT !.planned_start_date = task_by_id[t].planned_start_date,
                             !.planned_finish_date = task_by_id[t].planned_finish_date]
        ELSE [task[t] EXCEPT !.planned_start_date = NULL,
                             !.planned_finish_date = NULL]]

\* db.py 32: session.commit() flushes the planned dates of the session's task
\* objects to their rows
Flush(task, task_by_id) ==
    [t \in DOMAIN task |->
        IF t \in DOMAIN task_by_id
        THEN [task[t] EXCEPT !.planned_start_date = task_by_id[t].planned_start_date,
                             !.planned_finish_date = task_by_id[t].planned_finish_date]
        ELSE task[t]]

\* what the caller of compute_cpm gets: the tuple of line 123, or the exception
Returned(f) ==
    [error |-> "none",
     project_schedule |-> f.project_schedule,
     schedule_by_task |-> f.schedule_by_task]

Raised(f) ==
    [error |-> f.error, project_schedule |-> <<>>, schedule_by_task |-> <<>>]

----------------------------------------------------------------------------
(* The database a call starts from. *)

ProjectRow(start_date) == [start_date |-> start_date, exists |-> TRUE]

TaskRow(project_id, duration_days) ==
    [project_id |-> project_id,
     duration_days |-> duration_days,
     planned_start_date |-> NULL,
     planned_finish_date |-> NULL]

DepRow(project_id, predecessor_id, successor_id) ==
    [project_id |-> project_id,
     predecessor_id |-> predecessor_id,
     successor_id |-> successor_id]

\* Project 1 owns the tasks 1..n, project 2 the others; the dependency rows
\* of project 1 name any task row, its own or not.
InitTables ==
    /\ Project \in [Projects -> {ProjectRow(s) : s \in StartDates}]
    /\ \E n \in 0..MaxTasks :
         \E d \in [1..n -> Durations] :
            Task = [t \in TaskIds |->
                      IF t <= n THEN TaskRow(1, d[t]) ELSE TaskRow(2, 1)]
    /\ TaskDependency \in
         SeqsUpTo({DepRow(1, u, v) : u \in TaskIds, v \in TaskIds}, MaxDeps)

Init ==
    /\ InitTables
    /\ requests = [p \in Projects |-> IF p = 1 THEN <<TRUE>> ELSE <<>>]
    /\ call = [p \in Projects |-> IdleFrame]
    /\ returned = [p \in Projects |-> <<>>]

\* the caller of project 1 calls compute_cpm(1) twice in succession
InitTwice ==
    /\ InitTables
    /\ requests = [p \in Projects |-> IF p = 1 THEN <<TRUE, TRUE>> ELSE <<>>]
    /\ call = [p \in Projects |-> IdleFrame]
    /\ returned = [p \in Projects |-> <<>>]

----------------------------------------------------------------------------
(* The steps of compute_cpm(p, persist_planned_dates). *)

tables == <<Project, Task, TaskDependency>>

At(p, pc) == call[p].pc = pc

Call(p) ==
    /\ requests[p] # <<>>
    /\ call[p].pc \in {"idle", "done", "failed"}
    /\ call' = [call EXCEPT ![p] = GetProject(@, Project[p], Head(requests[p]))]
    /\ requests' = [requests EXCEPT ![p] = Tail(@)]
    /\ UNCHANGED <<tables, returned>>

LoadGraph(p) ==
    /\ At(p, "load")
    /\ call' = [call EXCEPT ![p] = Load(@, Task, TaskDependency, p)]
    /\ UNCHANGED <<tables, requests, returned>>

TopoIndegree(p) ==
    /\ At(p, "indegree")
    /\ call' = [call EXCEPT ![p] = CountIndegree(@)]
    /\ UNCHANGED <<tables, requests, returned>>

TopoSeed(p) ==
    /\ At(p, "seed")
    /\ call' = [call EXCEPT ![p] = SeedQueue(@)]
    /\ UNCHANGED <<tables, requests, returned>>

TopoLoop(p) ==
    /\ At(p, "kahn")
    /\ call[p].queue # <<>>
    /\ call' = [call EXCEPT ![p] = KahnStep(@)]
    /\ UNCHANGED <<tables, requests, returned>>

TopoReturn(p) ==
    /\ At(p, "kahn")
    /\ call[p].queue = <<>>
    /\ call' = [call EXCEPT ![p] = KahnEnd(@)]
    /\ UNCHANGED <<tables, requests, returned>>

Forward(p) ==
    /\ At(p, "forward")
    /\ call[p].pos <= Len(call[p].order)
    /\ call' = [call EXCEPT ![p] = ForwardStep(@)]
    /\ UNCHANGED <<tables, requests, returned>>

Finish(p) ==
    /\ At(p, "forward")
    /\ call[p].pos > Len(call[p].order)
    /\ call' = [call EXCEPT ![p] = FinishStep(@)]
    /\ UNCHANGED <<tables, requests, returned>>

Backward(p) ==
    /\ At(p, "backward")
    /\ call[p].pos <= Len(call[p].reverse_order)
    /\ call' = [call EXCEPT ![p] = BackwardStep(@)]
    /\ UNCHANGED <<tables, requests, returned>>

Select(p) ==
    /\ At(p, "backward")
    /\ call[p].pos > Len(call[p].reverse_order)
    /\ call' = [call EXCEPT ![p] = SelectStep(@, p)]
    /\ UNCHANGED <<tables, requests, returned>>

Persist(p) ==
    /\ At(p, "persist")
    /\ call' = [call EXCEPT ![p] = PersistStep(@)]
    /\ UNCHANGED <<tables, requests, returned>>

\* schedule.py 123 and db.py 32, 37: return, commit, close
Commit(p) ==
    /\ At(p, "return")
    /\ Task' = Flush(Task, call[p].task_by_id)
    /\ call' = [call EXCEPT ![p].pc = "done"]
    /\ returned' = [returned EXCEPT ![p] = Append(@, Returned(call[p]))]
    /\ UNCHANGED <<Project, TaskDependency, requests>>

\* mutant: the failing call clears the planned dates of its project's tasks
RollbackClearsPlanned(p) ==
    /\ At(p, "raise")
    /\ Task' = [t \in DOMAIN Task |->
                  IF Task[t].project_id = p
                  THEN [Task[t] EXCEPT !.planned_start_date = NULL,
                                       !.planned_finish_date = NULL]
                  ELSE Task[t]]
    /\ call' = [call EXCEPT ![p].pc = "failed"]
    /\ returned' = [returned EXCEPT ![p] = Append(@, Raised(call[p]))]
    /\ UNCHANGED <<Project, TaskDependency, requests>>

\* db.py 33-37: rollback, re-raise, close
Rollback(p) ==
    /\ At(p, "raise")
    /\ call' = [call EXCEPT ![p].pc = "failed"]
    /\ returned' = [returned EXCEPT ![p] = Append(@, Raised(call[p]))]
    /\ UNCHANGED <<tables, requests>>

Next ==
    \E p \in Projects :
        \/ Call(p)
        \/ LoadGraph(p)
        \/ TopoIndegree(p)
        \/ TopoSeed(p)
        \/ TopoLoop(p)
        \/ TopoReturn(p)
        \/ Forward(p)
        \/ Finish(p)
        \/ Backward(p)
        \/ Select(p)
        \/ Persist(p)
        \/ Commit(p)
        \/ Rollback(p)

Spec == Init /\ [][Next]_vars

SpecTwice == InitTwice /\ [][Next]_vars

\* the call keeps running: compute_cpm has no blocking step, so a step that
\* can be taken is taken
SpecLive == Init /\ [][Next]_vars /\ WF_vars(Next)

----------------------------------------------------------------------------
(* A database in use: project 1 may have been deleted or may have no start  *)
(* date yet, and the task rows carry the planned dates of an earlier plan.  *)

\* a task row with planned dates left by an earlier schedule
Stored(row) ==
    [row EXCEPT !.planned_start_date = 3, !.planned_finish_date = 5]

InitStoredTables ==
    /\ \E r \in {Missing, ProjectRow(NULL)} \cup {ProjectRow(s) : s \in StartDates} :
         \E s \in StartDates :
            Project = [p \in Projects |-> IF p = 1 THEN r ELSE ProjectRow(s)]
    /\ \E n \in 0..MaxTasks :
         \E d \in [1..n -> Durations] :
            Task = [t \in TaskIds |->
                      Stored(IF t <= n THEN TaskRow(1, d[t]) ELSE TaskRow(2, 1))]
    /\ TaskDependency \in
         SeqsUpTo({DepRow(1, u, v) : u \in TaskIds, v \in TaskIds}, MaxDeps)

InitStored ==
    /\ InitStoredTables
    /\ requests = [p \in Projects |-> IF p = 1 THEN <<TRUE>> ELSE <<>>]
    /\ call = [p \in Projects |-> IdleFrame]
    /\ returned = [p \in Projects |-> <<>>]

SpecStored == InitStored /\ [][Next]_vars

\* the same database, read by compute_cpm(1, persist_planned_dates=False)
InitDryRun ==
    /\ InitStoredTables
    /\ requests = [p \in Projects |-> IF p = 1 THEN <<FALSE>> ELSE <<>>]
    /\ call = [p \in Projects |-> IdleFrame]
    /\ returned = [p \in Projects |-> <<>>]

SpecDryRun == InitDryRun /\ [][Next]_vars

----------------------------------------------------------------------------
(* Two callers at once: compute_cpm(1) and compute_cpm(2), each in its own  *)
(* session, their steps interleaved in any order.                           *)

InitConcurrentTables ==
    /\ Project = [p \in Projects |-> ProjectRow(10 * p)]
    /\ \E n \in 1..(MaxTasks - 1) :
         \E d \in [TaskIds -> {1, MaxDur}] :
            Task = [t \in TaskIds |-> TaskRow(IF t <= n THEN 1 ELSE 2, d[t])]
    /\ TaskDependency \in
         SeqsUpTo({DepRow(p, u, v) : p \in Projects, u \in TaskIds, v \in TaskIds},
                  MaxDeps - 1)

InitConcurrent ==
    /\ InitConcurrentTables
    /\ requests = [p \in Projects |-> <<TRUE>>]
    /\ call = [p \in Projects |-> IdleFrame]
    /\ returned = [p \in Projects |-> <<>>]

SpecConcurrent == InitConcurrent /\ [][Next]_vars

----------------------------------------------------------------------------
(* compute_cpm as one function of the tables: the steps above, run from the *)
(* call to the return or the raise.                                         *)

StepFrame(f, task, deps, project_id) ==
    CASE f.pc = "load" -> Load(f, task, deps, project_id)
      [] f.pc = "indegree" -> CountIndegree(f)
      [] f.pc = "seed" -> SeedQueue(f)
      [] f.pc = "kahn" -> IF f.queue # <<>> THEN KahnStep(f) ELSE KahnEnd(f)
      [] f.pc = "forward" ->
            IF f.pos <= Len(f.order) THEN ForwardStep(f) ELSE FinishStep(f)
      [] f.pc = "backward" ->
            IF f.pos <= Len(f.reverse_order) THEN BackwardStep(f)
            ELSE SelectStep(f, project_id)
      [] f.pc = "persist" -> PersistStep(f)
      [] OTHER -> f

RECURSIVE RunFrame(_, _, _, _)
RunFrame(f, task, deps, project_id) ==
    IF f.pc \in {"return", "raise"} THEN f
    ELSE RunFrame(StepFrame(f, task, deps, project_id), task, deps, project_id)

compute_cpm(project, task, deps, project_id, persist_planned_dates) ==
    LET f == RunFrame(GetProject(IdleFrame, project[project_id], persist_planned_dates),
                      task, deps, project_id)
    IN  IF f.pc = "return" THEN Returned(f) ELSE Raised(f)

----------------------------------------------------------------------------
(* The input of a call, read off the tables. *)

ProjectTasks(p) == {t \in TaskIds : Task[t].project_id = p}

ProjectDeps(p) ==
    {TaskDependency[i] : i \in {j \in 1..Len(TaskDependency) :
                                     TaskDependency[j].project_id = p}}

\* the dependency edges between two tasks of the project
EdgesAmong(p) ==
    {<<d.predecessor_id, d.successor_id>> : d \in
        {e \in ProjectDeps(p) : /\ e.predecessor_id \in ProjectTasks(p)
                                /\ e.successor_id \in ProjectTasks(p)}}

\* every dependency of the project joins two of its tasks
WellFormed(p) ==
    \A d \in ProjectDeps(p) : /\ d.predecessor_id \in ProjectTasks(p)
                              /\ d.successor_id \in ProjectTasks(p)

RECURSIVE ReachFrom(_, _, _)
ReachFrom(S, E, k) ==
    IF k = 0 THEN S
    ELSE ReachFrom(S \cup {e[2] : e \in {x \in E : x[1] \in S}}, E, k - 1)

\* a directed cycle among the tasks of the project, a self-loop included
HasCycle(p) ==
    \E t \in ProjectTasks(p) :
        t \in ReachFrom({e[2] : e \in {x \in EdgesAmong(p) : x[1] = t}},
                        EdgesAmong(p), MaxTasks)

Finished(p) == requests[p] = <<>> /\ call[p].pc \in {"done", "failed"}

\* what the last call of project p gave its caller
Out(p) == returned[p][Len(returned[p])]

Succeeded(p) == Finished(p) /\ Out(p).error = "none"

Sched(p) == Out(p).schedule_by_task

----------------------------------------------------------------------------
(* Properties of the graph check. *)

\* C1: a project whose dependency graph (every edge joining two of its tasks)
\* holds a directed cycle, a self-loop included, gets CycleError and no
\* schedule.
C1_CycleRaisesCycleError ==
    (Finished(1) /\ WellFormed(1) /\ HasCycle(1)) =>
        /\ Out(1).error = "CycleError"
        /\ Out(1).project_schedule = <<>>
        /\ Out(1).schedule_by_task = <<>>

\* a cycle through two or more tasks was rejected
C1_Witness ==
    /\ Finished(1) /\ WellFormed(1) /\ HasCycle(1)
    /\ \A d \in ProjectDeps(1) : d.predecessor_id # d.successor_id
    /\ Out(1).error = "CycleError"

\* C2: a dependency whose predecessor or successor is not a task of the
\* project makes compute_cpm fail with ValueError (the invalid-input error).
C2_DanglingEdgeRaisesValueError ==
    (Finished(1) /\ ~WellFormed(1)) => Out(1).error = "ValueError"

----------------------------------------------------------------------------
(* Properties of a returned schedule. *)

\* C3: in a returned schedule every task has early_start <= late_start,
\* early_finish <= late_finish and total_float_days >= 0.
C3_FloatNonNegative ==
    Succeeded(1) =>
        \A t \in DOMAIN Sched(1) :
            /\ Sched(1)[t].early_start <= Sched(1)[t].late_start
            /\ Sched(1)[t].early_finish <= Sched(1)[t].late_finish
            /\ Sched(1)[t].total_float_days >= 0

\* a schedule with a task that has slack
C3_Witness ==
    /\ Succeeded(1)
    /\ \E t \in DOMAIN Sched(1) : Sched(1)[t].total_float_days > 0

\* C4: a returned schedule of a project with at least one task has a task of
\* float 0, and critical_path_task_ids is not empty.
C4_SomeTaskCritical ==
    (Succeeded(1) /\ ProjectTasks(1) # {}) =>
        /\ \E t \in DOMAIN Sched(1) : Sched(1)[t].total_float_days = 0
        /\ Out(1).project_schedule.critical_path_task_ids # <<>>

\* three tasks scheduled, one of them not critical
C4_Witness ==
    /\ Succeeded(1)
    /\ Cardinality(ProjectTasks(1)) = MaxTasks
    /\ Len(Out(1).project_schedule.critical_path_task_ids) = MaxTasks - 1

\* C5 as stated: every critical task has late_finish equal to finish_date.
C5_Original ==
    Succeeded(1) =>
        \A t \in DOMAIN Sched(1) :
            Sched(1)[t].is_critical =>
                Sched(1)[t].late_finish = Out(1).project_schedule.finish_date

\* C5, amended: every critical task has late_finish no later than
\* finish_date, and equal to it when the task has no successor.
C5_CriticalLateFinish ==
    Succeeded(1) =>
        \A t \in DOMAIN Sched(1) :
            Sched(1)[t].is_critical =>
                /\ Sched(1)[t].late_finish <= Out(1).project_schedule.finish_date
                /\ (\A e \in EdgesAmong(1) : e[1] # t) =>
                      Sched(1)[t].late_finish = Out(1).project_schedule.finish_date

\* a critical task that ends the project and a critical task before it
C5_Witness ==
    /\ Succeeded(1)
    /\ \E e \in EdgesAmong(1) :
         /\ Sched(1)[e[1]].is_critical /\ Sched(1)[e[2]].is_critical
         /\ \A x \in EdgesAmong(1) : x[1] # e[2]
         /\ Sched(1)[e[2]].late_finish = Out(1).project_schedule.finish_date

\* C6: a second call in succession, the tables unchanged but for the planned
\* dates the first call persisted, gives its caller the same ProjectSchedule
\* and the same TaskSchedule map, critical_path_task_ids in the same order.
C6_SecondCallIdentical ==
    Len(returned[1]) = 2 =>
        /\ returned[1][2].error = returned[1][1].error
        /\ returned[1][2].project_schedule = returned[1][1].project_schedule
        /\ returned[1][2].schedule_by_task = returned[1][1].schedule_by_task

\* the second call returned after the first persisted its planned dates, with
\* two critical tasks to order
C6_Witness ==
    /\ Len(returned[1]) = 2
    /\ returned[1][2].error = "none"
    /\ Len(returned[1][2].project_schedule.critical_path_task_ids) >= 2
    /\ \E t \in ProjectTasks(1) :
         /\ Task[t].planned_start_date # NULL
         /\ Task[t].planned_finish_date > Task[t].planned_start_date + 1

\* the durations that the floor turns into one day
Floored == -2..1

\* C7: giving a task a duration_days <= 0 instead of 1 (or the other way)
\* changes neither the ProjectSchedule nor the TaskSchedule map.
C7_NonPositiveDurationIsOneDay ==
    Succeeded(1) =>
        \A t \in ProjectTasks(1) :
            Task[t].duration_days \in Floored =>
                \A d \in Floored :
                    LET other == compute_cpm(Project,
                                             [Task EXCEPT ![t].duration_days = d],
                                             TaskDependency, 1, TRUE)
                    IN  /\ other.error = "none"
                        /\ other.project_schedule = Out(1).project_schedule
                        /\ other.schedule_by_task = Out(1).schedule_by_task

\* a task stored with duration 0 between a predecessor and a successor
C7_Witness ==
    /\ Succeeded(1)
    /\ \E t \in ProjectTasks(1) :
         /\ Task[t].duration_days = 0
         /\ \E e \in EdgesAmong(1) : e[2] = t
         /\ \E e \in EdgesAmong(1) : e[1] = t

\* C8: finish_date is the largest early_finish over all tasks of the project,
\* and the project's start_date when the project has no task.
C8_FinishDateIsMaxEarlyFinish ==
    Succeeded(1) =>
        /\ DOMAIN Sched(1) = ProjectTasks(1)
        /\ ProjectTasks(1) # {} =>
             /\ \E t \in ProjectTasks(1) :
                  Out(1).project_schedule.finish_date = Sched(1)[t].early_finish
             /\ \A t \in ProjectTasks(1) :
                  Sched(1)[t].early_finish <= Out(1).project_schedule.finish_date
        /\ ProjectTasks(1) = {} =>
             Out(1).project_schedule.finish_date = Project[1].start_date

\* tasks finishing on three different days
C8_Witness ==
    /\ Succeeded(1)
    /\ Cardinality({Sched(1)[t].early_finish : t \in ProjectTasks(1)}) = MaxTasks

\* C9 as stated: early_finish - early_start and late_finish - late_start both
\* equal the task's duration_days, for every duration the input accepts.
C9_Original ==
    Succeeded(1) =>
        \A t \in DOMAIN Sched(1) :
            /\ Sched(1)[t].early_finish - Sched(1)[t].early_start = Task[t].duration_days
            /\ Sched(1)[t].late_finish - Sched(1)[t].late_start = Task[t].duration_days

\* C9, amended: both differences equal duration_days when it is at least 1,
\* and one day when it is 0 or less (the stored durations, and any task given
\* a duration of -2..0 instead).
C9_SpanIsFlooredDuration ==
    Succeeded(1) =>
        \A t \in DOMAIN Sched(1) :
            LET days == IF Task[t].duration_days >= 1 THEN Task[t].duration_days ELSE 1
            IN  /\ Sched(1)[t].early_finish - Sched(1)[t].early_start = days
                /\ Sched(1)[t].late_finish - Sched(1)[t].late_start = days
                /\ \A d \in -2..0 :
                     LET other == compute_cpm(Project,
                                              [Task EXCEPT ![t].duration_days = d],
                                              TaskDependency, 1, TRUE)
                     IN  /\ other.error = "none"
                         /\ other.schedule_by_task[t].early_finish
                              - other.schedule_by_task[t].early_start = 1
                         /\ other.schedule_by_task[t].late_finish
                              - other.schedule_by_task[t].late_start = 1

\* a task of duration 0 and a task of the longest duration, both scheduled
C9_Witness ==
    /\ Succeeded(1)
    /\ \E t \in DOMAIN Sched(1) : Task[t].duration_days = 0
    /\ \E t \in DOMAIN Sched(1) : Task[t].duration_days = MaxDur

\* how often id t occurs in the list ids
Occurrences(ids, t) == Cardinality({i \in 1..Len(ids) : ids[i] = t})

\* C10: total_float_days is late_start - early_start, is_critical holds
\* exactly when it is 0, and critical_path_task_ids holds exactly the ids of
\* the critical tasks, each once.
C10_FloatAndCriticalIds ==
    Succeeded(1) =>
        /\ \A t \in DOMAIN Sched(1) :
             /\ Sched(1)[t].total_float_days =
                    Sched(1)[t].late_start - Sched(1)[t].early_start
             /\ Sched(1)[t].is_critical <=> (Sched(1)[t].total_float_days = 0)
             /\ Occurrences(Out(1).project_schedule.critical_path_task_ids, t) =
                    (IF Sched(1)[t].is_critical THEN 1 ELSE 0)
        /\ Range(Out(1).project_schedule.critical_path_task_ids) \subseteq DOMAIN Sched(1)

\* two critical tasks and one with two days of float
C10_Witness ==
    /\ Succeeded(1)
    /\ Len(Out(1).project_schedule.critical_path_task_ids) = 2
    /\ \E t \in DOMAIN Sched(1) :
         ~Sched(1)[t].is_critical /\ Sched(1)[t].total_float_days = 2

----------------------------------------------------------------------------
(* Properties of the failing call and of the write-back. *)

\* the project has no row or no start date
Unschedulable(p) == ~Project[p].exists \/ Project[p].start_date = NULL

\* C11: when the project does not exist or has no start_date, the call never
\* reads a task or a dependency, and it ends with ValueError and no schedule.
C11_NoProjectOrStartRaisesValueError ==
    Unschedulable(1) =>
        /\ call[1].pc \in {"idle", "raise", "failed"}
        /\ call[1].tasks = <<>> /\ call[1].deps = <<>> /\ call[1].task_by_id = <<>>
        /\ Finished(1) =>
             /\ Out(1).error = "ValueError"
             /\ Out(1).project_schedule = <<>>
             /\ Out(1).schedule_by_task = <<>>

\* a project that exists, has tasks and dependencies, but no start date, was
\* rejected
C11_Witness ==
    /\ Finished(1)
    /\ Project[1].exists /\ Project[1].start_date = NULL
    /\ ProjectTasks(1) # {} /\ TaskDependency # <<>>
    /\ Out(1).error = "ValueError"

\* the call of project p raised: ValueError, KeyError or CycleError
Failing(p) == call[p].pc \in {"raise", "failed"}

\* C12: a failing call holds and returns no ProjectSchedule and no
\* TaskSchedule, never reached the write-back, and leaves every task row with
\* the planned dates it had before the call.
C12_FailureReturnsAndWritesNothing ==
    Failing(1) =>
        /\ call[1].project_schedule = <<>> /\ call[1].schedule_by_task = <<>>
        /\ \A t \in DOMAIN call[1].task_by_id : call[1].task_by_id[t] = Task[t]
        /\ \A t \in TaskIds : Task[t] = Stored(Task[t])
        /\ Finished(1) =>
             /\ Out(1).error # "none"
             /\ Out(1).project_schedule = <<>>
             /\ Out(1).schedule_by_task = <<>>

\* a call that read its tasks and then failed on a cycle, rolled back
C12_Witness ==
    /\ Finished(1)
    /\ Out(1).error = "CycleError"
    /\ Cardinality(DOMAIN call[1].task_by_id) >= 2
    /\ \A t \in TaskIds : Task[t].planned_finish_date = 5

\* C13 as stated: no step of a call (with its default arguments) changes any
\* field of any task row.
C13_Original == [][Task' = Task]_vars

\* the fields of a task other than the two planned dates
SameButPlanned(a, b) ==
    /\ a.project_id = b.project_id
    /\ a.duration_days = b.duration_days

\* C13, amended: a call changes no field of a task record other than
\* planned_start_date and planned_finish_date, neither in the task objects of
\* its session nor in the rows.
C13_OnlyPlannedDatesChange ==
    /\ [](\A t \in DOMAIN call[1].task_by_id :
              SameButPlanned(call[1].task_by_id[t], Task[t]))
    /\ [][\A t \in TaskIds : SameButPlanned(Task'[t], Task[t])]_vars

\* a committed call that replaced the planned dates of a task stored with
\* duration 0
C13_Witness ==
    /\ Succeeded(1)
    /\ \E t \in ProjectTasks(1) :
         /\ Task[t].duration_days = 0
         /\ Task[t].planned_start_date # 3
         /\ Task[t].planned_finish_date # 5

\* C14: after a successful call with persist_planned_dates true, the rows of
\* all tasks of the project hold the computed early_start and early_finish as
\* their planned dates.
C14_PlannedDatesCommitted ==
    (Succeeded(1) /\ call[1].persist_planned_dates) =>
        \A t \in ProjectTasks(1) :
            /\ t \in DOMAIN Sched(1)
            /\ Task[t].planned_start_date = Sched(1)[t].early_start
            /\ Task[t].planned_finish_date = Sched(1)[t].early_finish

\* three tasks committed with three different planned start dates
C14_Witness ==
    /\ Succeeded(1) /\ call[1].persist_planned_dates
    /\ Cardinality({Task[t].planned_start_date : t \in ProjectTasks(1)}) = MaxTasks

----------------------------------------------------------------------------
(* The worked examples: a linear chain, two branches joining. *)

\* the orders in which the tasks of project p can be lined up
LineUps(p) ==
    {c \in [1..Cardinality(ProjectTasks(p)) -> ProjectTasks(p)] :
        \A i, j \in DOMAIN c : c[i] = c[j] => i = j}

\* the dependencies of project p are exactly c[1] -> c[2] -> ... -> c[n]
IsChain(p, c) ==
    /\ WellFormed(p)
    /\ EdgesAmong(p) = {<<c[i], c[i + 1]>> : i \in 1..(Len(c) - 1)}

\* d_1 + ... + d_k along the chain c
RECURSIVE DaysThrough(_, _)
DaysThrough(c, k) ==
    IF k = 0 THEN 0 ELSE Task[c[k]].duration_days + DaysThrough(c, k - 1)

\* C15: in a linear chain t1 -> ... -> tn (n >= 1) of tasks with durations
\* d_i >= 1 and project start S, task t_i has early_start = late_start =
\* S + d_1 + ... + d_(i-1), early_finish = late_finish = early_start + d_i,
\* float 0 and is critical, and finish_date = S + d_1 + ... + d_n.
C15_LinearChain ==
    Finished(1) =>
        \A c \in LineUps(1) :
            (/\ Len(c) >= 1
             /\ IsChain(1, c)
             /\ \A t \in ProjectTasks(1) : Task[t].duration_days >= 1) =>
                /\ Out(1).error = "none"
                /\ Out(1).project_schedule.finish_date =
                       Project[1].start_date + DaysThrough(c, Len(c))
                /\ \A i \in DOMAIN c :
                     LET ts == Sched(1)[c[i]]
                         start == Project[1].start_date + DaysThrough(c, i - 1)
                     IN  /\ ts.early_start = start
                         /\ ts.late_start = start
                         /\ ts.early_finish = start + Task[c[i]].duration_days
                         /\ ts.late_finish = start + Task[c[i]].duration_days
                         /\ ts.total_float_days = 0
                         /\ ts.is_critical

\* the chain 3 -> 1 -> 2 with durations that differ
C15_Witness ==
    /\ Succeeded(1)
    /\ Cardinality(ProjectTasks(1)) = 3
    /\ IsChain(1, <<3, 1, 2>>)
    /\ \A t \in ProjectTasks(1) : Task[t].duration_days >= 1
    /\ Task[3].duration_days # Task[1].duration_days
    /\ Out(1).project_schedule.finish_date =
           Project[1].start_date + DaysThrough(<<3, 1, 2>>, 3)

\* the dependencies of project p are exactly a -> c and b -> c, its tasks
\* exactly a, b and c
IsJoin(p, a, b, c) ==
    /\ ProjectTasks(p) = {a, b, c}
    /\ Cardinality({a, b, c}) = 3
    /\ WellFormed(p)
    /\ EdgesAmong(p) = {<<a, c>>, <<b, c>>}

\* the claim's dates in a schedule, for branch durations da > db
JoinDates(schedule, a, b, c, da, db) ==
    /\ schedule[c].early_start = schedule[a].early_finish
    /\ schedule[a].total_float_days = 0 /\ schedule[a].is_critical
    /\ schedule[c].total_float_days = 0 /\ schedule[c].is_critical
    /\ schedule[b].total_float_days = da - db
    /\ ~schedule[b].is_critical

\* C16: two tasks A (duration a) and B (duration b) without predecessors
\* both feed task C, a > b >= 1: C starts at A's early finish, A and C are
\* critical with float 0, B has float a - b and is not critical.
C16_TwoBranchesJoin ==
    Finished(1) =>
        \A a, b, c \in TaskIds :
            IsJoin(1, a, b, c) =>
                /\ (Task[a].duration_days > Task[b].duration_days
                      /\ Task[b].duration_days >= 1) =>
                     /\ Out(1).error = "none"
                     /\ JoinDates(Sched(1), a, b, c,
                                  Task[a].duration_days, Task[b].duration_days)
                /\ \A da, db \in 1..(MaxDur + 2) :
                     da > db =>
                        LET other ==
                              compute_cpm(Project,
                                          [Task EXCEPT ![a].duration_days = da,
                                                       ![b].duration_days = db],
                                          TaskDependency, 1, TRUE)
                        IN  /\ other.error = "none"
                            /\ JoinDates(other.schedule_by_task, a, b, c, da, db)

\* the shorter branch listed first among the dependencies
C16_Witness ==
    /\ Succeeded(1)
    /\ IsJoin(1, 1, 3, 2)
    /\ TaskDependency[1].predecessor_id = 3
    /\ Task[1].duration_days = 2 /\ Task[3].duration_days = 1
    /\ Sched(1)[3].total_float_days = 1

----------------------------------------------------------------------------
(* Two calls at once. *)

\* the task table before either call: no planned dates yet
Unplanned == [t \in TaskIds |-> [Task[t] EXCEPT !.planned_start_date = NULL,
                                               !.planned_finish_date = NULL]]

\* the row of task t once the call of its project, run alone, has committed
RowAfterAlone(t) ==
    LET alone == compute_cpm(Project, Unplanned, TaskDependency,
                             Unplanned[t].project_id, TRUE)
    IN  IF alone.error = "none"
        THEN [Unplanned[t] EXCEPT
                 !.planned_start_date = alone.schedule_by_task[t].early_start,
                 !.planned_finish_date = alone.schedule_by_task[t].early_finish]
        ELSE Unplanned[t]

\* C17: with the steps of compute_cpm(1) and compute_cpm(2) interleaved in
\* any order, each call holds only tasks and dependencies of its own
\* project, gives its caller what it gives when run alone, before or after
\* the other, and each task row is untouched until the call of its own
\* project commits and holds that call's planned dates from then on.
C17_ConcurrentCallsIndependent ==
    \A p \in Projects :
        /\ DOMAIN call[p].task_by_id \subseteq ProjectTasks(p)
        /\ \A d \in Range(call[p].deps) : d.project_id = p
        /\ Finished(p) =>
             /\ Out(p) = compute_cpm(Project, Unplanned, TaskDependency, p, TRUE)
             /\ Out(p) = compute_cpm(Project, Task, TaskDependency, p, TRUE)
        /\ \A t \in ProjectTasks(p) :
             Task[t] = IF call[p].pc = "done" THEN RowAfterAlone(t) ELSE Unplanned[t]

\* project 1 has committed the planned dates of its two dependent tasks
\* while project 2 is in its backward pass, its rows still unplanned
C17_Witness ==
    /\ call[1].pc = "done" /\ call[2].pc = "backward"
    /\ Cardinality(ProjectTasks(1)) = 2
    /\ call[1].deps # <<>>
    /\ \A t \in ProjectTasks(1) : Task[t].planned_start_date # NULL
    /\ \A t \in ProjectTasks(2) : Task[t].planned_start_date = NULL

----------------------------------------------------------------------------
(* What float and criticality mean: recomputing with one task longer. *)

\* finish_date of project 1 recomputed with k more days of duration on task t
FinishWithDelay(t, k) ==
    compute_cpm(Project, [Task EXCEPT ![t].duration_days = @ + k],
                TaskDependency, 1, TRUE).project_schedule.finish_date

\* C18 as stated: one more day on any critical task makes finish_date exactly
\* one day later.
C18_Original ==
    Succeeded(1) =>
        \A t \in DOMAIN Sched(1) :
            Sched(1)[t].is_critical =>
                FinishWithDelay(t, 1) = Out(1).project_schedule.finish_date + 1

\* C18, amended: one more day on any critical task whose duration_days is at
\* least 1 makes finish_date exactly one day later.
C18_CriticalDelayDelaysProject ==
    Succeeded(1) =>
        \A t \in DOMAIN Sched(1) :
            (Sched(1)[t].is_critical /\ Task[t].duration_days >= 1) =>
                FinishWithDelay(t, 1) = Out(1).project_schedule.finish_date + 1

\* a critical task in the middle of the plan, beside a task with float
C18_Witness ==
    /\ Succeeded(1)
    /\ \E t \in DOMAIN Sched(1) :
         /\ Sched(1)[t].is_critical /\ Task[t].duration_days >= 1
         /\ \E e \in EdgesAmong(1) : e[1] = t
         /\ FinishWithDelay(t, 1) = Out(1).project_schedule.finish_date + 1
    /\ \E t \in DOMAIN Sched(1) : ~Sched(1)[t].is_critical

\* C19 as stated: a task with float f can take k more days of duration, for
\* every k in 0..f, with finish_date unchanged, and f + 1 more days make
\* finish_date later.
C19_Original ==
    Succeeded(1) =>
        \A t \in DOMAIN Sched(1) :
            LET f == Sched(1)[t].total_float_days
            IN  /\ \A k \in 0..f :
                     FinishWithDelay(t, k) = Out(1).project_schedule.finish_date
                /\ FinishWithDelay(t, f + 1) > Out(1).project_schedule.finish_date

\* C19, amended: the same for every task whose duration_days is at least 1.
C19_FloatIsAllowedSlip ==
    Succeeded(1) =>
        \A t \in DOMAIN Sched(1) :
            Task[t].duration_days >= 1 =>
                LET f == Sched(1)[t].total_float_days
                IN  /\ \A k \in 0..f :
                         FinishWithDelay(t, k) = Out(1).project_schedule.finish_date
                    /\ FinishWithDelay(t, f + 1) > Out(1).project_schedule.finish_date

\* a task with two days of float and a successor
C19_Witness ==
    /\ Succeeded(1)
    /\ \E t \in DOMAIN Sched(1) :
         /\ Task[t].duration_days >= 1
         /\ Sched(1)[t].total_float_days = 2
         /\ FinishWithDelay(t, 2) = Out(1).project_schedule.finish_date
         /\ FinishWithDelay(t, 3) = Out(1).project_schedule.finish_date + 1

----------------------------------------------------------------------------
(* The order returned by _topological_order. *)

\* compute_cpm of project p holds the list returned by _topological_order
TopoReturned(p) ==
    call[p].pc \in {"forward", "backward", "persist", "return", "done"}

\* the places of task t in the list ids
Places(ids, t) == {i \in 1..Len(ids) : ids[i] = t}

\* C20: whenever _topological_order returns, the returned order holds every
\* task id of the project exactly once, and the predecessor of every
\* dependency edge stands before its successor.
C20_OrderIsTopological ==
    TopoReturned(1) =>
        LET order == call[1].order
        IN  /\ Len(order) = Cardinality(ProjectTasks(1))
            /\ \A t \in ProjectTasks(1) : Cardinality(Places(order, t)) = 1
            /\ \A i \in 1..Len(order) : order[i] \in ProjectTasks(1)
            /\ \A d \in ProjectDeps(1) :
                 \E i \in Places(order, d.predecessor_id) :
                     \E j \in Places(order, d.successor_id) : i < j

\* three tasks returned in an order that is not the order of their ids
C20_Witness ==
    /\ call[1].pc = "forward"
    /\ Len(call[1].order) = 3
    /\ Cardinality(ProjectDeps(1)) >= 2
    /\ call[1].order # <<1, 2, 3>>

----------------------------------------------------------------------------
(* The two passes, against the dependency rows of the project. *)

\* the predecessors and the successors of task t in the rows of project p
PredsOf(p, t) ==
    {d.predecessor_id : d \in {e \in ProjectDeps(p) : e.successor_id = t}}

SuccsOf(p, t) ==
    {d.successor_id : d \in {e \in ProjectDeps(p) : e.predecessor_id = t}}

\* the forward pass of the call of project p has begun
ForwardBegun(p) ==
    call[p].pc \in {"forward", "backward", "persist", "return", "done"}

\* C21: in the forward pass a task without predecessors gets the project
\* start_date as early_start, a task with predecessors gets the maximum
\* early_finish of all its predecessors, and the early_finish of every
\* predecessor is computed when the task is visited.
C21_ForwardPass ==
    /\ (call[1].pc = "forward" /\ call[1].pos <= Len(call[1].order)) =>
           PredsOf(1, call[1].order[call[1].pos]) \subseteq DOMAIN call[1].ef
    /\ ForwardBegun(1) =>
           \A t \in DOMAIN call[1].es :
               call[1].es[t] =
                   IF PredsOf(1, t) = {} THEN Project[1].start_date
                   ELSE MaxOf({call[1].ef[q] : q \in PredsOf(1, t)})

\* the forward pass is over; one task waited for two predecessors that finish
\* on different days, the later of them named first in the rows
C21_Witness ==
    /\ call[1].pc = "backward"
    /\ \E t \in DOMAIN call[1].es :
         /\ Cardinality(PredsOf(1, t)) = 2
         /\ \E i, j \in 1..Len(TaskDependency) :
              /\ i < j
              /\ TaskDependency[i].successor_id = t
              /\ TaskDependency[j].successor_id = t
              /\ call[1].ef[TaskDependency[i].predecessor_id]
                     > call[1].ef[TaskDependency[j].predecessor_id]
    /\ \E t \in DOMAIN call[1].es :
         PredsOf(1, t) = {} /\ call[1].es[t] = Project[1].start_date

\* the backward pass of the call of project p has begun
BackwardBegun(p) == call[p].pc \in {"backward", "persist", "return", "done"}

\* C22: in the backward pass a task without successors gets the project
\* finish date as late_finish, a task with successors gets the minimum
\* late_start of all its successors, and the late_start of every successor is
\* computed when the task is visited in reverse topological order.
C22_BackwardPass ==
    /\ (call[1].pc = "backward" /\ call[1].pos <= Len(call[1].reverse_order)) =>
           SuccsOf(1, call[1].reverse_order[call[1].pos]) \subseteq DOMAIN call[1].ls
    /\ BackwardBegun(1) =>
           /\ call[1].reverse_order = Reverse(call[1].order)
           /\ \A t \in DOMAIN call[1].lf :
                call[1].lf[t] =
                    IF SuccsOf(1, t) = {} THEN call[1].project_finish
                    ELSE MinOf({call[1].ls[s] : s \in SuccsOf(1, t)})
    /\ (call[1].pc = "raise" /\ call[1].error = "KeyError") =>
           call[1].reverse_order = NoOrder

\* the backward pass is over; one task is followed by two successors that
\* must start on different days, and one task has no successor
C22_Witness ==
    /\ call[1].pc = "persist"
    /\ \E t \in DOMAIN call[1].lf :
         /\ Cardinality(SuccsOf(1, t)) = 2
         /\ \E a, b \in SuccsOf(1, t) : call[1].ls[a] < call[1].ls[b]
         /\ call[1].lf[t] < call[1].project_finish
    /\ \E t \in DOMAIN call[1].lf :
         SuccsOf(1, t) = {} /\ call[1].lf[t] = call[1].project_finish

----------------------------------------------------------------------------
(* The worklist of _topological_order. *)

IsPrefix(a, b) == Len(a) <= Len(b) /\ SubSeq(b, 1, Len(a)) = a

\* every task enqueued so far by the sorter of project p, in the order of
\* enqueueing: those already output, then those still waiting
Enqueued(p) == call[p].order \o call[p].queue

\* the tasks of project p that no dependency row names as a successor, in
\* task-list order
InitiallyReady(p) ==
    SelectIds(Ascending(MaxTasks), {t \in ProjectTasks(p) : PredsOf(p, t) = {}})

\* C23: the sorter is first in, first out: the initially ready tasks are
\* enqueued and output in task-list order, every iteration outputs the task
\* enqueued earliest among the waiting ones, and newly ready tasks are put
\* behind all tasks enqueued before them.
C23_FifoOrder ==
    /\ [](/\ call[1].pc = "kahn" => IsPrefix(InitiallyReady(1), Enqueued(1))
          /\ TopoReturned(1) => IsPrefix(InitiallyReady(1), call[1].order))
    /\ [][(call[1].pc = "kahn" /\ call'[1].pc = "kahn") =>
              /\ call'[1].order = Append(call[1].order, Head(call[1].queue))
              /\ IsPrefix(Enqueued(1), Enqueued(1)')]_vars

\* task 1 made task 3 ready before task 2, and they were output in that order
C23_Witness ==
    /\ call[1].pc = "forward"
    /\ call[1].order = <<1, 3, 2>>

\* C24: CycleError is raised only when some directed cycle exists among the
\* tasks of the project.
C24_CycleErrorOnlyForCycle ==
    (Finished(1) /\ Out(1).error = "CycleError") => HasCycle(1)

----------------------------------------------------------------------------
(* Dependency rows that repeat an edge. *)

\* C25 as stated: when the dependency rows of an acyclic project repeat an
\* edge, compute_cpm succeeds and returns the ProjectSchedule and the
\* TaskSchedule map it returns for the rows with a single copy of each edge.
C25_Original ==
    LET single == SingleCopies(TaskDependency, {})
    IN  (Finished(1) /\ single # TaskDependency) =>
            LET one == compute_cpm(Project, Task, single, 1, TRUE)
            IN  one.error = "none" =>
                    /\ Out(1).error = "none"
                    /\ Out(1).project_schedule = one.project_schedule
                    /\ Out(1).schedule_by_task = one.schedule_by_task

\* C25, amended: with repeated edges compute_cpm succeeds, lists no task
\* twice, and returns the same TaskSchedule map and the same ProjectSchedule
\* but for the order of critical_path_task_ids, which holds the same ids.
C25_DuplicateEdgesHarmless ==
    LET single == SingleCopies(TaskDependency, {})
    IN  (Finished(1) /\ single # TaskDependency) =>
            LET one == compute_cpm(Project, Task, single, 1, TRUE)
                ids == Out(1).project_schedule.critical_path_task_ids
            IN  one.error = "none" =>
                    /\ Out(1).error = "none"
                    /\ Out(1).schedule_by_task = one.schedule_by_task
                    /\ [Out(1).project_schedule EXCEPT !.critical_path_task_ids = <<>>]
                         = [one.project_schedule EXCEPT !.critical_path_task_ids = <<>>]
                    /\ Range(ids) = Range(one.project_schedule.critical_path_task_ids)
                    /\ \A t \in Range(ids) : Occurrences(ids, t) = 1
                    /\ \A t \in ProjectTasks(1) : Occurrences(call[1].order, t) = 1

\* a repeated edge changed the order of the critical ids and nothing else
C25_Witness ==
    /\ Succeeded(1)
    /\ SingleCopies(TaskDependency, {}) # TaskDependency
    /\ Out(1).project_schedule.critical_path_task_ids = <<1, 3, 2>>
    /\ compute_cpm(Project, Task, SingleCopies(TaskDependency, {}), 1, TRUE)
          .project_schedule.critical_path_task_ids = <<1, 2, 3>>

\* the worklist loop of the call of project p is over
KahnOver(p) ==
    \/ TopoReturned(p)
    \/ call[p].pc \in {"raise", "failed"} /\ call[p].error = "CycleError"

\* C26: the worklist loop terminates: no task id is enqueued or dequeued
\* twice, no in-degree becomes negative, and the loop ends with an empty
\* worklist, for graphs with and without cycles.
C26_KahnTerminates ==
    /\ [](/\ (call[1].pc = "kahn" \/ KahnOver(1)) =>
               /\ \A t \in TaskIds : Occurrences(Enqueued(1), t) <= 1
               /\ \A t \in DOMAIN call[1].indegree : call[1].indegree[t] >= 0
          /\ KahnOver(1) => call[1].queue = <<>>)
    /\ [][(call[1].pc = "kahn" /\ call'[1].pc = "kahn") =>
              Len(call'[1].order) = Len(call[1].order) + 1]_vars
    /\ (call[1].pc = "kahn") ~> KahnOver(1)

\* the loop ended on a graph with a cycle after a task was output and the
\* in-degree of another counted down without reaching zero
C26_Witness ==
    /\ call[1].pc = "raise" /\ call[1].error = "CycleError"
    /\ HasCycle(1)
    /\ Len(call[1].order) >= 1
    /\ call[1].queue = <<>>
    /\ \E t \in DOMAIN call[1].indegree :
         call[1].indegree[t] = 1 /\ Cardinality(PredsOf(1, t)) = 2

----------------------------------------------------------------------------
(* Order of the dates in a returned schedule. *)

\* the paths t1 -> ... -> tk of critical tasks of project p that run from the
\* project start to the project finish without a gap
CriticalChains(p) ==
    {c \in UNION {[1..k -> DOMAIN Sched(p)] : k \in 1..MaxTasks} :
        /\ \A i \in DOMAIN c : Sched(p)[c[i]].is_critical
        /\ \A i \in 1..(Len(c) - 1) :
             /\ <<c[i], c[i + 1]>> \in EdgesAmong(p)
             /\ Sched(p)[c[i]].early_finish = Sched(p)[c[i + 1]].early_start
        /\ Sched(p)[c[1]].early_start = Out(p).project_schedule.start_date
        /\ Sched(p)[c[Len(c)]].early_finish = Out(p).project_schedule.finish_date}

\* C27: the schedule of an acyclic project with at least one task has a path
\* of critical tasks along dependency edges that starts on the project
\* start_date, ends on finish_date, and in which each task starts when the
\* one before it finishes.
C27_CriticalChainExists ==
    (Succeeded(1) /\ ProjectTasks(1) # {}) =>
        /\ Out(1).project_schedule.start_date = Project[1].start_date
        /\ CriticalChains(1) # {}

\* the only complete chain runs through two tasks, beside a task with float
C27_Witness ==
    /\ Succeeded(1)
    /\ Cardinality(ProjectTasks(1)) = 3
    /\ \A c \in CriticalChains(1) : Len(c) = 2
    /\ CriticalChains(1) # {}
    /\ \E t \in DOMAIN Sched(1) : ~Sched(1)[t].is_critical

\* C28: in every returned schedule, along every dependency edge (p, s)
\* early_finish(p) <= early_start(s) and late_finish(p) <= late_start(s), and
\* for every task start_date <= early_start and late_finish <= finish_date.
C28_DatesOrdered ==
    Succeeded(1) =>
        /\ \A d \in ProjectDeps(1) :
             /\ d.predecessor_id \in DOMAIN Sched(1)
             /\ d.successor_id \in DOMAIN Sched(1)
             /\ Sched(1)[d.predecessor_id].early_finish
                    <= Sched(1)[d.successor_id].early_start
             /\ Sched(1)[d.predecessor_id].late_finish
                    <= Sched(1)[d.successor_id].late_start
        /\ \A t \in DOMAIN Sched(1) :
             /\ Out(1).project_schedule.start_date <= Sched(1)[t].early_start
             /\ Sched(1)[t].late_finish <= Out(1).project_schedule.finish_date

\* one edge leaves a gap between the early dates, another between the late
\* dates
C28_Witness ==
    /\ Succeeded(1)
    /\ \E d \in ProjectDeps(1) :
         Sched(1)[d.predecessor_id].early_finish
             < Sched(1)[d.successor_id].early_start
    /\ \E d \in ProjectDeps(1) :
         Sched(1)[d.predecessor_id].late_finish
             < Sched(1)[d.successor_id].late_start

----------------------------------------------------------------------------
(* What a call leaves alone. *)

\* the call of project p returns and its session commits
Commits(p) == call[p].pc = "return" /\ call'[p].pc = "done"

\* C29: a call changes nothing but planned_start_date and
\* planned_finish_date of the tasks of the requested project: the project
\* records, the dependency records, the tasks of other projects and every
\* other task field stay as they are.
C29_WriteBackFrame ==
    [][/\ Project' = Project
       /\ TaskDependency' = TaskDependency
       /\ \A t \in TaskIds :
            Task'[t] # Task[t] =>
                /\ SameButPlanned(Task'[t], Task[t])
                /\ \E p \in Projects : Commits(p) /\ Task[t].project_id = p]_vars

\* project 1 has its planned dates written while the rows of project 2,
\* whose call is still running, are untouched
C29_Witness ==
    /\ call[1].pc = "done"
    /\ call[2].pc \in {"forward", "backward", "persist", "return"}
    /\ \E t \in ProjectTasks(1) :
         /\ Task[t].planned_start_date # NULL
         /\ Task[t].planned_finish_date = Task[t].planned_start_date + MaxDur
    /\ ProjectTasks(2) # {}
    /\ \A t \in ProjectTasks(2) :
         Task[t].planned_start_date = NULL /\ Task[t].planned_finish_date = NULL

\* C30: called with persist_planned_dates false, compute_cpm returns what it
\* returns with persist_planned_dates true and leaves planned_start_date and
\* planned_finish_date of every task as they were.
C30_DryRunSameSchedule ==
    /\ [](/\ Finished(1) =>
                Out(1) = compute_cpm(Project, Task, TaskDependency, 1, TRUE)
          /\ \A t \in DOMAIN call[1].task_by_id :
                call[1].task_by_id[t] = Task[t])
    /\ [][\A t \in TaskIds :
            /\ Task'[t].planned_start_date = Task[t].planned_start_date
            /\ Task'[t].planned_finish_date = Task[t].planned_finish_date]_vars

\* a schedule of two or more tasks was returned and the rows still hold the
\* planned dates of the earlier plan
C30_Witness ==
    /\ Succeeded(1)
    /\ ~call[1].persist_planned_dates
    /\ Cardinality(DOMAIN Sched(1)) >= 2
    /\ \A t \in DOMAIN Sched(1) :
         /\ Task[t] = Stored(Task[t])
         /\ Sched(1)[t].early_start # Task[t].planned_start_date

====
